---------------------------- MODULE Spec2Model ----------------------------
(***************************************************************************)
(* Model of the key-notation parser of keys-lib (src/src/lib.rs).          *)
(*                                                                         *)
(* A Rust &str is modelled as a sequence of one-character strings.  Every  *)
(* character the code does index arithmetic on ('<', '>', '-', '\') is one *)
(* byte wide, so the byte offsets of char_indices() are modelled as        *)
(* 0-based character offsets: the slice input[a..b] is Slice(input, a, b). *)
(* A Result is a record tagged "Ok" or "Err"; a call that aborts with      *)
(* panic!() is the record tagged "Panic".                                  *)
(***************************************************************************)
EXTENDS Naturals, Sequences, FiniteSets

VARIABLES input, op, result

vars == <<input, op, result>>

-----------------------------------------------------------------------------
(* Bounds of the explored inputs.                                          *)

MaxLen == 5

MaxInterior == 7

MaxTokens == 3

-----------------------------------------------------------------------------
(* Values.                                                                 *)

BSLASH == "\\"

\* the grave accent character U+0060, which a TLA+ string literal cannot hold
BACKTICK == "U+0060"

Ok(v) == [tag |-> "Ok", val |-> v]

Err(kind, arg) == [tag |-> "Err", kind |-> kind, arg |-> arg]

Panic == [tag |-> "Panic", msg |-> "cannot escape end of group"]

None == [some |-> FALSE]

Some(v) == [some |-> TRUE, val |-> v]

Modifiers(shift, control, alt) == [shift |-> shift, control |-> control, alt |-> alt]

Key(modifiers, name) == [modifiers |-> modifiers, name |-> name]

\* &input[a..b], with 0-based offsets a <= b
Slice(s, a, b) == SubSeq(s, a + 1, b)

\* &input[a..]
SliceFrom(s, a) == SubSeq(s, a + 1, Len(s))

-----------------------------------------------------------------------------
(* The key name table: define_key_name!( ident lower [upper], ... ).       *)

\* an entry with an $upper literal; a literal is a sequence of characters
Letter(ident, lower, upper) ==
    [ident |-> ident, lower |-> <<lower>>, hasUpper |-> TRUE, upper |-> <<upper>>]

\* an entry without an $upper literal
Plain(ident, lower) ==
    [ident |-> ident, lower |-> lower, hasUpper |-> FALSE, upper |-> <<>>]

KeyTable ==
    { Letter("A", "a", "A"), Letter("B", "b", "B"), Letter("C", "c", "C"),
      Letter("D", "d", "D"), Letter("E", "e", "E"), Letter("F", "f", "F"),
      Letter("G", "g", "G"), Letter("H", "h", "H"), Letter("I", "i", "I"),
      Letter("J", "j", "J"), Letter("K", "k", "K"), Letter("L", "l", "L"),
      Letter("M", "m", "M"), Letter("N", "n", "N"), Letter("O", "o", "O"),
      Letter("P", "p", "P"), Letter("Q", "q", "Q"), Letter("R", "r", "R"),
      Letter("S", "s", "S"), Letter("T", "t", "T"), Letter("U", "u", "U"),
      Letter("V", "v", "V"), Letter("W", "w", "W"), Letter("X", "x", "X"),
      Letter("Y", "y", "Y"), Letter("Z", "z", "Z"),
      Plain("Number0", <<"0">>), Plain("Number1", <<"1">>),
      Plain("Number2", <<"2">>), Plain("Number3", <<"3">>),
      Plain("Number4", <<"4">>), Plain("Number5", <<"5">>),
      Plain("Number6", <<"6">>), Plain("Number7", <<"7">>),
      Plain("Number8", <<"8">>), Plain("Number9", <<"9">>),
      Plain("Bang", <<"!">>), Plain("At", <<"@">>), Plain("Pound", <<"#">>),
      Plain("Dollar", <<"$">>), Plain("Percent", <<"%">>),
      Plain("Carrot", <<"^">>), Plain("Ampersand", <<"&">>),
      Plain("Star", <<"*">>), Plain("ParenthesisLeft", <<"(">>),
      Plain("ParenthesisRight", <<")">>), Plain("BracketLeft", <<"[">>),
      Plain("BracketRight", <<"]">>), Plain("BraceLeft", <<"{">>),
      Plain("BraceRight", <<"}">>), Plain("Backtick", <<BACKTICK>>),
      Plain("Tilde", <<"~">>), Plain("Equals", <<"=">>),
      Plain("Underscore", <<"_">>), Plain("Plus", <<"+">>),
      Plain("ForwardSlash", <<"/">>), Plain("Backslash", <<BSLASH>>),
      Plain("Question", <<"?">>), Plain("Pipe", <<"|">>),
      Plain("SingleQuote", <<"'">>), Plain("DoubleQuote", <<"\"">>),
      Plain("Comma", <<",">>), Plain("Period", <<".">>),
      Plain("Colon", <<":">>), Plain("Semicolon", <<";">>),
      Plain("Dash", <<BSLASH, "-">>), Plain("LessThan", <<BSLASH, "<">>),
      Plain("GreaterThan", <<BSLASH, ">">>) }

\* KeyName::from_str: Some((name, shift)) for a literal of the table, else None
from_str(value) ==
    IF \E e \in KeyTable : e.lower = value
    THEN Some([name |-> (CHOOSE e \in KeyTable : e.lower = value).ident,
               shift |-> FALSE])
    ELSE IF \E e \in KeyTable : e.hasUpper /\ e.upper = value
    THEN Some([name |-> (CHOOSE e \in KeyTable : e.hasUpper /\ e.upper = value).ident,
               shift |-> TRUE])
    ELSE None

-----------------------------------------------------------------------------
(* split_keys: the tokenizer.                                              *)

\* PushKey without the start != i test: a token is pushed at every boundary
PushKey_Unguarded(s, keys, start, i) ==
    [keys |-> Append(keys, Slice(s, start, i)), start |-> i]

\* "Push key based on index": if start != i { keys.push(&input[start..i]); start = i }
PushKey(s, keys, start, i) ==
    IF start # i
    THEN [keys |-> Append(keys, Slice(s, start, i)), start |-> i]
    ELSE [keys |-> keys, start |-> start]

\* SplitKeysEnd without the is_group test: an open group is pushed as a token
SplitKeysEnd_NoEndCheck(s, keys, start, is_group) ==
    IF start < Len(s) THEN Ok(Append(keys, SliceFrom(s, start))) ELSE Ok(keys)

\* "Push last key", after the loop
SplitKeysEnd(s, keys, start, is_group) ==
    IF start < Len(s)
    THEN IF is_group
         THEN Err("UnexpectedEnd", <<>>)
         ELSE Ok(Append(keys, SliceFrom(s, start)))
    ELSE Ok(keys)

RECURSIVE SplitKeysLoop(_, _, _, _, _)
\* the for loop over input.char_indices(), at offset i
SplitKeysLoop(s, i, keys, start, is_group) ==
    IF i >= Len(s)
    THEN SplitKeysEnd(s, keys, start, is_group)
    ELSE LET ch == s[i + 1] IN
         IF is_group /\ ch = "<" THEN Err("UnexpectedGroupOpen", <<>>)
         ELSE IF ~is_group /\ ch = ">" THEN Err("UnexpectedGroupClose", <<>>)
         ELSE IF ch = "<"
              THEN LET p == PushKey(s, keys, start, i)
                   IN  SplitKeysLoop(s, i + 1, p.keys, p.start, TRUE)
         ELSE IF ch = ">"
              THEN LET p == PushKey(s, keys, start, i + 1)
                   IN  SplitKeysLoop(s, i + 1, p.keys, p.start, FALSE)
         ELSE IF is_group
              THEN SplitKeysLoop(s, i + 1, keys, start, is_group)
         ELSE LET p == PushKey(s, keys, start, i)
              IN  SplitKeysLoop(s, i + 1, p.keys, p.start, is_group)

RECURSIVE SplitKeysLoop_Escaping(_, _, _, _, _, _)
\* the loop with an escape state: a backslash starts a token outside a group and
\* the character after it is taken literally
SplitKeysLoop_Escaping(s, i, keys, start, is_group, is_escaped) ==
    IF i >= Len(s)
    THEN SplitKeysEnd(s, keys, start, is_group)
    ELSE LET ch == s[i + 1] IN
         IF is_escaped
         THEN SplitKeysLoop_Escaping(s, i + 1, keys, start, is_group, FALSE)
         ELSE IF ch = BSLASH /\ is_group
         THEN SplitKeysLoop_Escaping(s, i + 1, keys, start, is_group, TRUE)
         ELSE IF ch = BSLASH
         THEN LET p == PushKey(s, keys, start, i)
              IN  SplitKeysLoop_Escaping(s, i + 1, p.keys, p.start, is_group, TRUE)
         ELSE IF is_group /\ ch = "<" THEN Err("UnexpectedGroupOpen", <<>>)
         ELSE IF ~is_group /\ ch = ">" THEN Err("UnexpectedGroupClose", <<>>)
         ELSE IF ch = "<"
              THEN LET p == PushKey(s, keys, start, i)
                   IN  SplitKeysLoop_Escaping(s, i + 1, p.keys, p.start, TRUE, FALSE)
         ELSE IF ch = ">"
              THEN LET p == PushKey(s, keys, start, i + 1)
                   IN  SplitKeysLoop_Escaping(s, i + 1, p.keys, p.start, FALSE, FALSE)
         ELSE IF is_group
              THEN SplitKeysLoop_Escaping(s, i + 1, keys, start, is_group, FALSE)
         ELSE LET p == PushKey(s, keys, start, i)
              IN  SplitKeysLoop_Escaping(s, i + 1, p.keys, p.start, is_group, FALSE)

\* split_keys honouring escapes
split_keys_Escaping(s) == SplitKeysLoop_Escaping(s, 0, <<>>, 0, FALSE, FALSE)

split_keys(s) == SplitKeysLoop(s, 0, <<>>, 0, FALSE)

-----------------------------------------------------------------------------
(* split_modifiers: the modifier splitter.                                 *)

\* SplitModifiersEnd with the text after the last separator never pushed
SplitModifiersEnd_TailDropped(s, keys, start, is_escaped) ==
    IF start < Len(s) /\ is_escaped THEN Panic ELSE Ok(keys)

\* after the loop: the text after the last separator
SplitModifiersEnd(s, keys, start, is_escaped) ==
    IF start < Len(s)
    THEN IF is_escaped
         THEN Panic
         ELSE Ok(Append(keys, SliceFrom(s, start)))
    ELSE Ok(keys)

RECURSIVE SplitModifiersLoop(_, _, _, _, _)
\* the for loop over input.char_indices(), at offset i
SplitModifiersLoop(s, i, keys, start, is_escaped) ==
    IF i >= Len(s)
    THEN SplitModifiersEnd(s, keys, start, is_escaped)
    ELSE LET ch == s[i + 1] IN
         IF is_escaped
         THEN SplitModifiersLoop(s, i + 1, keys, start, FALSE)
         ELSE IF ch = BSLASH
         THEN SplitModifiersLoop(s, i + 1, keys, start, TRUE)
         ELSE IF ch = "-"
         THEN SplitModifiersLoop(s, i + 1,
                  IF start # i THEN Append(keys, Slice(s, start, i)) ELSE keys,
                  i + 1, FALSE)
         ELSE SplitModifiersLoop(s, i + 1, keys, start, FALSE)

split_modifiers(s) == SplitModifiersLoop(s, 0, <<>>, 0, FALSE)

-----------------------------------------------------------------------------
(* parse_key: the key resolver.                                            *)

\* parse_key_no_modifier with Modifiers::default() in place of the looked-up shift
parse_key_no_modifier_ShiftLost(s) ==
    LET found == from_str(s) IN
    IF ~found.some
    THEN Err("InvalidKeyName", s)
    ELSE Ok(Key(Modifiers(FALSE, FALSE, FALSE), found.val.name))

parse_key_no_modifier(s) ==
    LET found == from_str(s) IN
    IF ~found.some
    THEN Err("InvalidKeyName", s)
    ELSE Ok(Key(Modifiers(found.val.shift, FALSE, FALSE), found.val.name))

RECURSIVE FoldModifiers(_, _, _, _)
\* for modifier in modifier_strings { match modifier { "C" .. "M" .. _ .. } }
FoldModifiers(mods, i, control, alt) ==
    IF i > Len(mods)
    THEN Ok([control |-> control, alt |-> alt])
    ELSE IF mods[i] = <<"C">> THEN FoldModifiers(mods, i + 1, TRUE, alt)
    ELSE IF mods[i] = <<"M">> THEN FoldModifiers(mods, i + 1, control, TRUE)
    ELSE Err("InvalidKeyModifier", mods[i])

\* ResolveGroup without the fewer-than-two test before the name is taken
ResolveGroup_NoLengthCheck(s, modifier_strings) ==
    IF Len(modifier_strings) = 0
    THEN Err("NoKeyName", <<>>)
    ELSE LET name  == modifier_strings[Len(modifier_strings)]
             rest  == SubSeq(modifier_strings, 1, Len(modifier_strings) - 1)
             found == from_str(name)
         IN  IF ~found.some
             THEN Err("InvalidKeyName", name)
             ELSE LET m == FoldModifiers(rest, 1, FALSE, FALSE) IN
                  IF m.tag # "Ok"
                  THEN m
                  ELSE Ok(Key(Modifiers(found.val.shift, m.val.control, m.val.alt),
                              found.val.name))

\* the body of parse_key_with_modifier once split_modifiers has returned Ok
ResolveGroup(s, modifier_strings) ==
    IF Len(modifier_strings) < 2
    THEN Err("IncompleteGroup", s)
    ELSE IF Len(modifier_strings) = 0
    THEN Err("NoKeyName", <<>>)
    ELSE LET name  == modifier_strings[Len(modifier_strings)]
             rest  == SubSeq(modifier_strings, 1, Len(modifier_strings) - 1)
             found == from_str(name)
         IN  IF ~found.some
             THEN Err("InvalidKeyName", name)
             ELSE LET m == FoldModifiers(rest, 1, FALSE, FALSE) IN
                  IF m.tag # "Ok"
                  THEN m
                  ELSE Ok(Key(Modifiers(found.val.shift, m.val.control, m.val.alt),
                              found.val.name))

parse_key_with_modifier(s) ==
    LET r == split_modifiers(s) IN
    IF r.tag # "Ok" THEN r ELSE ResolveGroup(s, r.val)

\* input.starts_with('<') && input.ends_with('>')
IsGroupToken(s) == Len(s) > 0 /\ s[1] = "<" /\ s[Len(s)] = ">"

\* chars.next(); chars.next_back(); chars.as_str()
Interior(s) == SubSeq(s, 2, Len(s) - 1)

parse_key(s) ==
    IF IsGroupToken(s)
    THEN parse_key_with_modifier(Interior(s))
    ELSE parse_key_no_modifier(s)

-----------------------------------------------------------------------------
(* parse_keys: the sequence parser.                                        *)

RECURSIVE ParseKeysLoop(_, _, _)
\* for key in tokens { keys.push(parse_key(&key)?) }
ParseKeysLoop(tokens, i, keys) ==
    IF i > Len(tokens)
    THEN Ok(keys)
    ELSE LET k == parse_key(tokens[i]) IN
         IF k.tag # "Ok"
         THEN k
         ELSE ParseKeysLoop(tokens, i + 1, Append(keys, k.val))

\* parse_keys with the tokenizer's error dropped instead of propagated
parse_keys_ErrorSwallowed(s) ==
    LET t == split_keys(s) IN
    ParseKeysLoop(IF t.tag = "Ok" THEN t.val ELSE <<>>, 1, <<>>)

parse_keys(s) ==
    LET t == split_keys(s) IN
    IF t.tag # "Ok" THEN t ELSE ParseKeysLoop(t.val, 1, <<>>)

-----------------------------------------------------------------------------
(* The inputs a caller may pass: any text.  Four bounded families.         *)

StringsUpTo(S, n) == UNION { [1..k -> S] : k \in 0..n }

\* every character of a table literal, and the notation's metacharacters
TableChars ==
    UNION { {e.lower[i] : i \in 1..Len(e.lower)} : e \in KeyTable }
    \cup { e.upper[1] : e \in {x \in KeyTable : x.hasUpper} }

AllChars == TableChars \cup {"-", "<", ">", " "}

\* characters of the exhaustive family: a lowercase and an uppercase
\* letter (the latter also a modifier letter) and the metacharacters
Sigma == {"a", "C", "-", "<", ">", BSLASH}

\* characters of group interiors
GroupSigma == {"C", "M", "a", "-"}

\* one character, or a backslash and one character
LiteralCandidates ==
    { <<c>> : c \in AllChars } \cup { <<BSLASH, c>> : c \in AllChars }

Group(w) == <<"<">> \o w \o <<">">>

Fragments ==
    { <<"a">>, <<"C">>, <<" ">>, <<">">>,
      Group(<<"C", "-", "a">>), Group(<<"M", "-", "C">>), Group(<<"C">>),
      Group(<<"a", "-", "a">>), Group(<<BSLASH>>) }

\* sub-tokens tried in the modifier places and in the key name place of a group
ModifierSamples == { <<"C">>, <<"M">>, <<"c">>, <<"m">>, <<"S">>, <<"C", "M">> }

NameSamples == { <<"a">>, <<"B">>, <<" ">>, <<"a", "b">>, <<BSLASH, "-">>, <<BSLASH>> }

RECURSIVE Concat(_)
Concat(ss) == IF ss = <<>> THEN <<>> ELSE Head(ss) \o Concat(Tail(ss))

Inputs ==
    StringsUpTo(Sigma, MaxLen)
    \cup { Group(w) : w \in StringsUpTo(GroupSigma, MaxInterior) }
    \cup LiteralCandidates
    \cup { Group(<<"C", "-">> \o x) : x \in LiteralCandidates }
    \cup { Concat(ss) : ss \in StringsUpTo(Fragments, MaxTokens) }
    \cup { Group(m \o <<"-">> \o n) : m \in ModifierSamples, n \in NameSamples }
    \cup { Group(l \o <<"-">> \o m \o <<"-">> \o n) :
               l \in ModifierSamples, m \in ModifierSamples, n \in NameSamples }

-----------------------------------------------------------------------------
(* The state machine: a caller picks a text and calls one function on it.  *)

NoResult == [tag |-> "None"]

Init ==
    /\ input \in Inputs
    /\ op = "none"
    /\ result = NoResult

ParseKeys ==
    /\ op = "none"
    /\ op' = "parse_keys"
    /\ result' = parse_keys(input)
    /\ UNCHANGED input

ParseKey ==
    /\ op = "none"
    /\ op' = "parse_key"
    /\ result' = parse_key(input)
    /\ UNCHANGED input

SplitKeys ==
    /\ op = "none"
    /\ op' = "split_keys"
    /\ result' = split_keys(input)
    /\ UNCHANGED input

SplitModifiers ==
    /\ op = "none"
    /\ op' = "split_modifiers"
    /\ result' = split_modifiers(input)
    /\ UNCHANGED input

Next == ParseKeys \/ ParseKey \/ SplitKeys \/ SplitModifiers

Spec == Init /\ [][Next]_vars

-----------------------------------------------------------------------------
(* Notions the properties are stated with.                                 *)

RECURSIVE EscapedAt(_, _)
\* the character at (1-based) position i follows an unescaped backslash
EscapedAt(s, i) == i > 1 /\ s[i - 1] = BSLASH /\ ~EscapedAt(s, i - 1)

\* the text ends in a backslash that escapes nothing
EndsInUnescapedBackslash(s) ==
    Len(s) > 0 /\ s[Len(s)] = BSLASH /\ ~EscapedAt(s, Len(s))

HasBackslash(s) == \E i \in 1..Len(s) : s[i] = BSLASH

\* the literal spellings of the key name table
Literals ==
    { e.lower : e \in KeyTable } \cup { e.upper : e \in { x \in KeyTable : x.hasUpper } }

UpperLetters ==
    { <<c>> : c \in {"A", "B", "C", "D", "E", "F", "G", "H", "I", "J", "K", "L", "M",
                     "N", "O", "P", "Q", "R", "S", "T", "U", "V", "W", "X", "Y", "Z"} }

RECURSIVE EscapeTokens(_, _)
\* reading from position i on: an unescaped backslash and the character after
\* it are one token, every other character is a token of its own
EscapeTokens(s, i) ==
    IF i > Len(s) THEN <<>>
    ELSE IF s[i] = BSLASH /\ i < Len(s)
         THEN <<SubSeq(s, i, i + 1)>> \o EscapeTokens(s, i + 2)
         ELSE <<SubSeq(s, i, i)>> \o EscapeTokens(s, i + 1)

RECURSIVE DashPieces(_, _, _)
\* the non-empty maximal pieces of s between unescaped dashes, from position
\* i on, cur being the piece read so far
DashPieces(s, i, cur) ==
    IF i > Len(s)
    THEN IF cur = <<>> THEN <<>> ELSE <<cur>>
    ELSE IF s[i] = "-" /\ ~EscapedAt(s, i)
         THEN (IF cur = <<>> THEN <<>> ELSE <<cur>>) \o DashPieces(s, i + 1, <<>>)
         ELSE DashPieces(s, i + 1, Append(cur, s[i]))

SubTokens(s) == DashPieces(s, 1, <<>>)

\* the delimiters of s, and whether a group is open just before position i
\* when no delimiter before i is misplaced
Delims(s) == { i \in 1..Len(s) : s[i] \in {"<", ">"} }

OpenBefore(s, i) ==
    \E j \in Delims(s) :
        /\ j < i
        /\ s[j] = "<"
        /\ \A k \in Delims(s) : k < i => k <= j

Misplaced(s, i) ==
    /\ i \in Delims(s)
    /\ \/ s[i] = "<" /\ OpenBefore(s, i)
       \/ s[i] = ">" /\ ~OpenBefore(s, i)

\* what the delimiters of s call for: "Ok", or the error of the earliest misplaced one
DelimiterVerdict(s) ==
    IF \E i \in 1..Len(s) : Misplaced(s, i)
    THEN LET i == CHOOSE x \in 1..Len(s) :
                      Misplaced(s, x) /\ \A y \in 1..Len(s) : Misplaced(s, y) => x <= y
         IN  IF s[i] = "<" THEN "UnexpectedGroupOpen" ELSE "UnexpectedGroupClose"
    ELSE IF OpenBefore(s, Len(s) + 1) THEN "UnexpectedEnd" ELSE "Ok"

-----------------------------------------------------------------------------
(* C1 .. C4                                                                *)

\* C1: parse_key and parse_keys return a value or an Error on every input;
\* no input makes them panic.
C1_NeverPanics ==
    op \in {"parse_key", "parse_keys"} => result.tag \in {"Ok", "Err"}

\* C2: in split_keys an unescaped backslash and the character after it are one
\* two-character token and the escaped character is no group delimiter: a text
\* whose every '<' and '>' is escaped is split into its escape tokens (so
\* backslash '>' is one token and 'a' backslash '<' 'b' is three).
C2_EscapedDelimiterIsLiteral ==
    ( /\ op = "split_keys"
      /\ \A i \in Delims(input) : EscapedAt(input, i)
      /\ ~EndsInUnescapedBackslash(input) )
    => result = Ok(EscapeTokens(input, 1))

\* C3: when split_keys returns Ok its tokens are non-empty and, concatenated in
\* order, are exactly the input; the empty input gives no token.
C3_TokensCoverInput ==
    (op = "split_keys" /\ result.tag = "Ok")
    => /\ \A i \in 1..Len(result.val) : result.val[i] # <<>>
       /\ Concat(result.val) = input
       /\ (input = <<>> => result.val = <<>>)

C3_Witness ==
    /\ op = "split_keys"
    /\ result.tag = "Ok"
    /\ Len(result.val) >= 3
    /\ \E i \in 1..Len(result.val) : Len(result.val[i]) >= 3
    /\ \E i \in 1..Len(result.val) : Len(result.val[i]) = 1

\* C4: on a text without backslashes split_keys fails exactly when the
\* delimiters are not balanced and un-nested, with the error of the earliest
\* violation: UnexpectedGroupOpen, UnexpectedGroupClose, or UnexpectedEnd when
\* the text ends inside a group.
C4_DelimiterErrors ==
    (op = "split_keys" /\ ~HasBackslash(input))
    => IF DelimiterVerdict(input) = "Ok"
       THEN result.tag = "Ok"
       ELSE result = Err(DelimiterVerdict(input), <<>>)

C4_Witness ==
    /\ op = "split_keys"
    /\ ~HasBackslash(input)
    /\ result = Err("UnexpectedEnd", <<>>)
    /\ \E i \in 1..Len(input) : input[i] = ">"
    /\ input[Len(input)] # "<"

-----------------------------------------------------------------------------
(* C5 .. C10                                                               *)

\* parse_key of every token of a tokenized text
TokenResults(tokens) == [i \in 1..Len(tokens) |-> parse_key(tokens[i])]

\* the name and the implicit shift the table gives a literal
LiteralName(x) == (CHOOSE e \in KeyTable : e.lower = x \/ (e.hasUpper /\ e.upper = x)).ident

ImplicitShift(x) == x \in UpperLetters

\* C5: when split_keys succeeds, parse_keys returns one Key per token in token
\* order, the i-th being parse_key of the i-th token, if every token resolves;
\* otherwise it returns the error of the leftmost token parse_key rejects.
C5_FoldsParseKeyOverTokens ==
    (op = "parse_keys" /\ split_keys(input).tag = "Ok")
    => LET rs == TokenResults(split_keys(input).val) IN
       IF \A i \in 1..Len(rs) : rs[i].tag = "Ok"
       THEN result = Ok([i \in 1..Len(rs) |-> rs[i].val])
       ELSE \E i \in 1..Len(rs) :
               /\ rs[i].tag = "Err"
               /\ \A j \in 1..(i - 1) : rs[j].tag = "Ok"
               /\ result = rs[i]

\* C6: whenever split_keys fails, parse_keys returns exactly that tokenizer
\* error, also when a token before the violation would be rejected by
\* parse_key.
C6_TokenizerErrorFirst ==
    (op = "parse_keys" /\ split_keys(input).tag = "Err")
    => /\ result = split_keys(input)
       /\ result.kind \in {"UnexpectedGroupOpen", "UnexpectedGroupClose", "UnexpectedEnd"}

\* a tokenizer error returned although the text starts with a token that
\* parse_key does not resolve
C6_Witness ==
    /\ op = "parse_keys"
    /\ result.tag = "Err"
    /\ result.kind = "UnexpectedGroupClose"
    /\ \E k \in 1..Len(input) :
          /\ split_keys(SubSeq(input, 1, k)).tag = "Ok"
          /\ Len(split_keys(SubSeq(input, 1, k)).val) = 1
          /\ parse_key(SubSeq(input, 1, k)).tag # "Ok"

\* C7: for a token that is not a bracketed group parse_key succeeds exactly when
\* the whole token is a table literal, with control and alt false and shift
\* true iff the literal is an uppercase letter; any other such token gives
\* InvalidKeyName carrying the token.
C7_BareToken ==
    (op = "parse_key" /\ ~(Len(input) >= 2 /\ Head(input) = "<" /\ input[Len(input)] = ">"))
    => IF input \in Literals
       THEN /\ result.tag = "Ok"
            /\ result.val.name = LiteralName(input)
            /\ result.val.modifiers = Modifiers(ImplicitShift(input), FALSE, FALSE)
       ELSE result = Err("InvalidKeyName", input)

C7_Witness ==
    /\ op = "parse_key"
    /\ input = <<"C">>
    /\ result = Ok(Key(Modifiers(TRUE, FALSE, FALSE), "C"))

\* C8: for every table literal x, parse_key of '<C-' x '>' succeeds with the
\* KeyName of x, control true, alt false and the implicit shift of x.
C8_ControlGroupOfEveryLiteral ==
    (op = "parse_key" /\ \E x \in Literals : input = Group(<<"C", "-">> \o x))
    => LET x == SubSeq(input, 4, Len(input) - 1) IN
       result = Ok(Key(Modifiers(ImplicitShift(x), TRUE, FALSE), LiteralName(x)))

\* C9: for a group whose modifier sub-tokens are all 'C' or 'M' and whose last
\* sub-token is a key name, the Key depends only on the set of modifier
\* letters: control iff 'C' occurs, alt iff 'M' occurs, whatever their order
\* or number.
C9_ModifierSetDecides ==
    LET subs == SubTokens(Interior(input)) IN
    ( /\ op = "parse_key"
      /\ IsGroupToken(input)
      /\ Len(subs) >= 2
      /\ subs[Len(subs)] \in Literals
      /\ \A i \in 1..(Len(subs) - 1) : subs[i] \in {<<"C">>, <<"M">>} )
    => result = Ok(Key(Modifiers(ImplicitShift(subs[Len(subs)]),
                                 \E i \in 1..(Len(subs) - 1) : subs[i] = <<"C">>,
                                 \E i \in 1..(Len(subs) - 1) : subs[i] = <<"M">>),
                       LiteralName(subs[Len(subs)])))

\* C10: for a token '<' .. '>' whose interior splits into fewer than two
\* non-empty sub-tokens, parse_key returns IncompleteGroup carrying the
\* interior as written.
C10_IncompleteGroup ==
    ( /\ op = "parse_key"
      /\ Len(input) >= 2 /\ Head(input) = "<" /\ input[Len(input)] = ">"
      /\ Len(SubTokens(Interior(input))) < 2 )
    => result = Err("IncompleteGroup", Interior(input))

-----------------------------------------------------------------------------
(* C11 .. C15                                                              *)

\* the interior of a group of the notation grammar: k >= 1 modifiers 'C' or
\* 'M', each followed by exactly one '-', then a key name literal
GrammarInterior(w) ==
    \E k \in 1..Len(w) :
        /\ 2 * k < Len(w)
        /\ \A j \in 1..k : w[2 * j - 1] \in {"C", "M"} /\ w[2 * j] = "-"
        /\ SubSeq(w, 2 * k + 1, Len(w)) \in Literals

\* one well-formed token of the notation grammar
WellFormedToken(s) ==
    \/ s \in Literals
    \/ Len(s) >= 2 /\ Head(s) = "<" /\ s[Len(s)] = ">" /\ GrammarInterior(Interior(s))

\* C11: parse_key returns Ok only for one well-formed token of the grammar (a
\* table literal, or '<', modifiers each followed by exactly one '-', a key
\* name, '>'); a group with a leading, doubled or trailing unescaped dash is
\* not accepted.
C11_OkOnlyForGrammarTokens ==
    (op = "parse_key" /\ result.tag = "Ok") => WellFormedToken(input)

\* C12: for an interior that does not end in an unescaped backslash,
\* split_modifiers returns, in order, exactly the non-empty maximal pieces
\* between unescaped '-' characters: an escaped '-' is no split point and stays
\* in its sub-token with the backslash, no sub-token is empty, and the text
\* after the last separator is returned when non-empty.
C12_SplitsOnUnescapedDashes ==
    (op = "split_modifiers" /\ ~EndsInUnescapedBackslash(input))
    => /\ result = Ok(SubTokens(input))
       /\ \A i \in 1..Len(result.val) : result.val[i] # <<>>

\* an escaped dash kept inside the sub-token after the last separator
C12_Witness ==
    /\ op = "split_modifiers"
    /\ input = <<"C", "-", BSLASH, "-">>
    /\ result = Ok(<< <<"C">>, <<BSLASH, "-">> >>)

\* C13: for a group with at least two sub-tokens parse_key checks the key name
\* before the modifiers: a last sub-token that is no table literal gives
\* InvalidKeyName carrying it, even when an earlier sub-token is no modifier;
\* otherwise an earlier sub-token that is not exactly 'C' or 'M' gives
\* InvalidKeyModifier carrying the leftmost such sub-token.
C13_NameBeforeModifiers ==
    LET subs == SubTokens(Interior(input))
        n == Len(subs)
        bad == { i \in 1..(n - 1) : subs[i] \notin {<<"C">>, <<"M">>} }
    IN  ( /\ op = "parse_key"
          /\ Len(input) >= 2 /\ Head(input) = "<" /\ input[Len(input)] = ">"
          /\ n >= 2 )
        => /\ subs[n] \notin Literals => result = Err("InvalidKeyName", subs[n])
           /\ (subs[n] \in Literals /\ bad # {})
              => result = Err("InvalidKeyModifier",
                              subs[CHOOSE i \in bad : \A j \in bad : i <= j])

\* C14: no input makes parse_key or parse_keys return NoKeyName: a group whose
\* interior has no name sub-token at all (such as <> or <C->) is reported as
\* IncompleteGroup, the fewer-than-two check running before the name is taken.
C14_NeverNoKeyName ==
    /\ (op \in {"parse_key", "parse_keys"} /\ result.tag = "Err")
       => result.kind # "NoKeyName"
    /\ ( /\ op \in {"parse_key", "parse_keys"}
         /\ Len(input) >= 2 /\ Head(input) = "<" /\ input[Len(input)] = ">"
         /\ \A i \in 2..(Len(input) - 1) : input[i] \in {"C", "M", "-"}
         /\ Len(SubTokens(Interior(input))) < 2 )
       => result = Err("IncompleteGroup", Interior(input))

\* a group with no sub-token at all, reported as IncompleteGroup
C14_Witness ==
    /\ op = "parse_keys"
    /\ input = <<"<", "-", "-", ">">>
    /\ result = Err("IncompleteGroup", <<"-", "-">>)

=============================================================================
